---------------------------- MODULE Spec2Model ----------------------------
(***************************************************************************)
(* A model of astroML/plotting/scatter_contour.py and smooth_contour.py.   *)
(*                                                                         *)
(* Three operations are modelled, each under its own specification:        *)
(*   SpecScatter, SpecLevels : scatter_contour(x, y, ...), with the calls  *)
(*                             of smooth_contour / smooth_contourf it      *)
(*                             makes when smooth is given                  *)
(*   SpecSegs                : SmoothContour._smooth_segs(seg, kind, avg)  *)
(*   SpecHold                : smooth_contour / smooth_contourf            *)
(*                                                                         *)
(* Python indices are 0-based, the sequences of this module 1-based: bin   *)
(* i of the source is bin i+1 here.  Real numbers that are not integers    *)
(* (the values of numpy.linspace) are kept as exact fractions <<num, den>> *)
(* with den > 0.                                                           *)
(***************************************************************************)
EXTENDS Integers, Sequences, FiniteSets

VARIABLES
    \* scatter_contour: where the call is, its arguments, what it computed
    sc_pc, sc_args, sc_ret,
    \* _smooth_segs: where the call is, the SmoothContour, its arguments,
    \* what it returned
    sg_pc, sg_self, sg_args, sg_ret,
    \* pyplot: the hold state of each axes, the current axes and the current
    \* image; smooth_contour and smooth_contourf: where the call is, its
    \* arguments, its local washold; and, as history, the hold states when
    \* the call began and whether the try block raised
    hold, gca, current_image, h_pc, h_call, washold, entry_hold, raised

vars == <<sc_pc, sc_args, sc_ret, sg_pc, sg_self, sg_args, sg_ret,
          hold, gca, current_image, h_pc, h_call, washold, entry_hold, raised>>

sc_vars == <<sc_pc, sc_args, sc_ret>>
sg_vars == <<sg_pc, sg_self, sg_args, sg_ret>>
h_vars == <<hold, gca, current_image, h_pc, h_call, washold, entry_hold,
           raised>>

-----------------------------------------------------------------------------
(* Bounds of the model.                                                    *)

\* most input points of one scatter_contour call
MaxPoints == 3
\* the bin edges are the integers 0..MaxCoord; x is one of 0..MaxCoord+1,
\* y one of 0..MaxCoord
MaxCoord == 2
\* thresholds are integers of 1..MaxThreshold
MaxThreshold == 2
\* an integer levels is one of 1..MaxLevels
MaxLevels == 3
\* an array levels has 1..MaxLevelsLen values of 0..MaxLevelVal
MaxLevelsLen == 2
MaxLevelVal == 3

\* a contour segment has 1..MaxSegLen points, of MaxSegCoord+1 places
MaxSegLen == 3
MaxSegCoord == 3
\* the spline degree k is one of 1..MaxK
MaxK == 2
\* int_number is one of 1..MaxIntNumber
MaxIntNumber == 2
\* the axes of the figure are 1..NumAxes
NumAxes == 2

-----------------------------------------------------------------------------
(* Helpers.                                                                *)

\* the sequences over S of length lo..hi
SeqsOf(S, lo, hi) == UNION {[1..n -> S] : n \in lo..hi}

\* the indices of 1..n that are in keep, as an increasing sequence
RECURSIVE SelectIdx(_, _)
SelectIdx(n, keep) ==
    IF n = 0 THEN <<>>
    ELSE IF n \in keep THEN Append(SelectIdx(n - 1, keep), n)
         ELSE SelectIdx(n - 1, keep)

\* a[mask] of numpy: the elements of a at the indices of keep, in order
Take(a, keep) ==
    LET idx == SelectIdx(Len(a), keep)
    IN [i \in 1..Len(idx) |-> a[idx[i]]]

\* p < q for fractions
RatLess(p, q) == p[1] * q[2] < q[1] * p[2]

\* p = q for fractions
RatEq(p, q) == p[1] * q[2] = q[1] * p[2]

\* the integer n as a fraction
Rat(n) == <<n, 1>>

\* the greatest common divisor of a >= 0 and b > 0
RECURSIVE Gcd(_, _)
Gcd(a, b) == IF b = 0 THEN a ELSE Gcd(b, a % b)

\* the fraction num/den, den > 0, in lowest terms
Reduced(num, den) ==
    LET g == Gcd(IF num < 0 THEN -num ELSE num, den)
    IN <<num \div g, den \div g>>

\* the thousandths of numpy.log10(1 + n), rounded down, for n in 0..9
Log10Milli == <<0, 301, 477, 602, 698, 778, 845, 903, 954, 1000>>

\* np.log10(1 + n), to three decimals
Log10p1(n) == <<Log10Milli[n + 1], 1000>>

-----------------------------------------------------------------------------
(* pyplot and the axes, as both files use them                             *)

Axes == 1..NumAxes

\* ax.hold(b) with b a boolean: the hold state of ax becomes b
AxHold(h, ax, b) == [h EXCEPT ![ax] = b]

\* pyp.sci(ret) is gca()._sci(ret), which raises ValueError ("ContourSet
\* must be in current Axes") for a ContourSet drawn on other axes than the
\* current ones
SciRaises(ax) == ax # gca

\* The hold states after a call of smooth_contour or smooth_contourf on ax
\* without the keyword hold, however the call ends: washold = ax.ishold(),
\* and ax.hold(washold) in the finally clause.
HoldAfterCall(h, ax) == AxHold(h, ax, h[ax])

\* pyplot and the axes before a call
InitPyplot ==
    /\ h_pc = "idle"
    /\ hold \in [Axes -> BOOLEAN]
    /\ gca \in Axes
    /\ current_image = "none"
    /\ h_call = <<>>
    /\ washold = FALSE
    /\ entry_hold = hold
    /\ raised = FALSE

-----------------------------------------------------------------------------
(* scatter_contour                                                         *)

\* The bin numpy.histogram2d counts a value in, given the bin edges: bin i
\* holds edges[i] <= v < edges[i+1], the last bin holds v = edges[-1] too;
\* 0 stands for a value outside the range, which is not counted.
NumpyBin(v, edges) ==
    LET nb == Len(edges) - 1
    IN IF v < edges[1] \/ v > edges[nb + 1] THEN 0
       ELSE IF v = edges[nb + 1] THEN nb
       ELSE CHOOSE i \in 1..nb : edges[i] <= v /\ v < edges[i + 1]

\* H of numpy.histogram2d(x, y, bins=[xedges, yedges]): H[i][j] counts the
\* points of x bin i and y bin j.
Histogram2d(x, y, xedges, yedges) ==
    [i \in 1..(Len(xedges) - 1) |-> [j \in 1..(Len(yedges) - 1) |->
        Cardinality({n \in 1..Len(x) :
            NumpyBin(x[n], xedges) = i /\ NumpyBin(y[n], yedges) = j})]]

\* if log_counts: H = np.log10(1 + H); H as fractions
ScaleCounts(H, log_counts) ==
    [i \in 1..Len(H) |-> [j \in 1..Len(H[i]) |->
        IF log_counts THEN Log10p1(H[i][j]) ELSE Rat(H[i][j])]]

\* if log_counts: threshold = np.log10(1 + threshold); as a fraction
ScaleThreshold(threshold, log_counts) ==
    IF log_counts THEN Log10p1(threshold) ELSE Rat(threshold)

\* H.max()
HMax(H) ==
    CHOOSE m \in {H[i][j] : i \in 1..Len(H), j \in 1..Len(H[1])} :
        \A i \in 1..Len(H), j \in 1..Len(H[1]) : ~RatLess(m, H[i][j])

\* np.linspace(start, stop, num): num evenly spaced values from start to
\* stop, both included; [start] for num = 1 and nothing for num <= 0.
\* Value i (from 0) is start + i * (stop - start) / (num - 1).
Linspace(start, stop, num) ==
    IF num <= 0 THEN <<>>
    ELSE IF num = 1 THEN <<start>>
    ELSE [i \in 1..num |->
             Reduced(start[1] * stop[2] * (num - 1)
                       + (i - 1) * (stop[1] * start[2] - start[1] * stop[2]),
                     start[2] * stop[2] * (num - 1))]

\* np.asarray(levels).size: levels is [isInt, n, arr], an integer n or the
\* array arr
LevelsSize(levels) == IF levels.isInt THEN 1 ELSE Len(levels.arr)

\* the num that np.linspace is given when levels.size == 1: the integer, or
\* the only value of a one-element array
LevelsNum(levels) == IF levels.isInt THEN levels.n ELSE levels.arr[1]

\* levels = np.asarray(levels); if levels.size == 1: levels = np.linspace(...)
ContourLevels(levels, threshold, H) ==
    IF LevelsSize(levels) = 1
    THEN Linspace(threshold, HMax(H), LevelsNum(levels))
    ELSE [i \in 1..Len(levels.arr) |-> Rat(levels.arr[i])]

\* np.argmin(levels): the first index of the least value
ArgMin(levels) ==
    CHOOSE i \in 1..Len(levels) :
        /\ \A j \in 1..Len(levels) : ~RatLess(levels[j], levels[i])
        /\ \A j \in 1..(i - 1) : RatLess(levels[i], levels[j])

\* the bins with a count up to threshold, threshold included
SparseBinInclusive(h, threshold) ==
    ~RatLess(threshold, h) /\ RatLess(Rat(0), h)

\* (H < threshold) & (H > 0): the bins whose points are scatter candidates
SparseBin(h, threshold) == RatLess(h, threshold) /\ RatLess(Rat(0), h)

\* (x >= xbins[i]) & (x < xbins[i+1])
InBin(v, bins, i) == v >= bins[i] /\ v < bins[i + 1]

\* points_outside after the loop over np.where((H<threshold)&(H>0))
PointsOutside(x, y, H, threshold, xbins, ybins) ==
    [n \in 1..Len(x) |->
        \E i \in 1..Len(H), j \in 1..Len(H[1]) :
            /\ SparseBin(H[i][j], threshold)
            /\ InBin(x[n], xbins, i)
            /\ InBin(y[n], ybins, j)]

\* X = np.vstack([x[points_outside],y[points_outside]]).T
StackPoints(x, y, points_outside) ==
    LET keep == {n \in 1..Len(x) : points_outside[n]}
        xs == Take(x, keep)
        ys == Take(y, keep)
    IN [i \in 1..Len(xs) |-> <<xs[i], ys[i]>>]

\* cont and contf: the four contour functions the call may use
ContourFn(smooth_given, filled) ==
    IF smooth_given
    THEN (IF filled THEN "smooth_contourf" ELSE "smooth_contour")
    ELSE (IF filled THEN "ax.contourf" ELSE "ax.contour")

\* matplotlib's contour tracing and Path.contains_points are not modelled:
\* whether the outline has a segment (has_segs), and which candidates lie
\* inside its first polygon (points_inside), are free.
PlottedPoints(X, has_segs, points_inside) ==
    IF has_segs THEN Take(X, (1..Len(X)) \ points_inside) ELSE X

\* The levels that every matplotlib refuses in the contours call of lines
\* 107-110: less than two levels for filled contours (ValueError).
LevelsRefused(levels, filled) == filled /\ Len(levels) < 2

\* The levels that matplotlib from 1.5 on refuses there and older ones
\* accept: several levels that are not increasing (ValueError).
LevelsNotIncreasing(levels) ==
    \E i \in 1..(Len(levels) - 1) : ~RatLess(levels[i], levels[i + 1])

\* if ax is None: ax = plt.gca()      (0 stands for None)
ScatterAx == IF sc_args.ax = 0 THEN gca ELSE sc_args.ax

\* The axes of the outline call of line 104.  It is not given contour_args,
\* so smooth_contour, which takes its axes from the keyword ax, draws the
\* outline on the current axes (and with its default smooth).
OutlineAx == IF sc_args.smooth_given THEN gca ELSE ScatterAx

\* what a call has computed and passes to the outline and contours calls
Drawn(levels, threshold, H) ==
    [levels |-> levels,
     i_min |-> ArgMin(levels),
     outline_levels |-> SubSeq(levels, ArgMin(levels), ArgMin(levels)),
     outline_fn |-> ContourFn(sc_args.smooth_given, FALSE),
     outline_ax |-> OutlineAx,
     contours_fn |-> ContourFn(sc_args.smooth_given, sc_args.filled_contour),
     contours_ax |-> ScatterAx,
     threshold |-> threshold,
     hmax |-> HMax(H)]

\* sc_ret of a call that an exception left after it had computed drawn
Unfinished(drawn) ==
    [drawn |-> drawn, points_outside |-> <<>>, X |-> <<>>,
     has_segs |-> FALSE, Xplot |-> <<>>]

\* One call of scatter_contour that returns.  With smooth given the outline
\* is drawn by smooth_contour and the contours by smooth_contourf or
\* smooth_contour on ax, each of which puts the hold state back and makes
\* its ContourSet the current image (ContourSet.__init__ sets the array, so
\* ret._A is not None); the second pyp.sci needs ax to be the current axes.
ScatterContour ==
    /\ sc_pc = "called"
    /\ sc_args.smooth_given => ~SciRaises(ScatterAx)
    /\ \E H \in {ScaleCounts(Histogram2d(sc_args.x, sc_args.y,
                     sc_args.xedges, sc_args.yedges), sc_args.log_counts)},
          threshold \in {ScaleThreshold(sc_args.threshold,
                                        sc_args.log_counts)} :
        \E levels \in {ContourLevels(sc_args.levels, threshold, H)},
           points_outside \in {PointsOutside(sc_args.x, sc_args.y, H,
                                 threshold, sc_args.xedges, sc_args.yedges)} :
        \E X \in {StackPoints(sc_args.x, sc_args.y, points_outside)} :
          /\ Len(levels) > 0
          /\ ~LevelsRefused(levels, sc_args.filled_contour)
          /\ \E has_segs \in BOOLEAN, points_inside \in SUBSET (1..Len(X)) :
               /\ has_segs \/ points_inside = {}
               /\ sc_ret' = [
                    drawn |-> Drawn(levels, threshold, H),
                    points_outside |-> points_outside,
                    X |-> X,
                    has_segs |-> has_segs,
                    Xplot |-> PlottedPoints(X, has_segs, points_inside)]
    /\ sc_pc' = "returned"
    /\ hold' = IF sc_args.smooth_given
               THEN HoldAfterCall(HoldAfterCall(hold, OutlineAx), ScatterAx)
               ELSE hold
    /\ current_image' =
           IF sc_args.smooth_given
           THEN ContourFn(TRUE, sc_args.filled_contour)
           ELSE current_image
    /\ UNCHANGED <<sc_args, sg_vars, gca, h_pc, h_call, washold, entry_hold,
                   raised>>

\* One call of scatter_contour in which np.argmin raises: np.linspace of a
\* count that is not positive gives no levels, and the argmin of an empty
\* array is a ValueError.  Nothing has been drawn.
ArgminRaises ==
    /\ sc_pc = "called"
    /\ \E H \in {ScaleCounts(Histogram2d(sc_args.x, sc_args.y,
                     sc_args.xedges, sc_args.yedges), sc_args.log_counts)},
          threshold \in {ScaleThreshold(sc_args.threshold,
                                        sc_args.log_counts)} :
        Len(ContourLevels(sc_args.levels, threshold, H)) = 0
    /\ sc_pc' = "raised_argmin"
    /\ UNCHANGED <<sc_args, sc_ret, sg_vars, h_vars>>

\* One call of scatter_contour in which np.linspace raises: a numpy whose
\* linspace takes num with operator.index refuses an array of one element
\* as num (TypeError); an older one converts it with int(num).  Nothing
\* has been drawn.
LinspaceRaises ==
    /\ sc_pc = "called"
    /\ ~sc_args.levels.isInt
    /\ LevelsSize(sc_args.levels) = 1
    /\ sc_pc' = "raised_linspace"
    /\ UNCHANGED <<sc_args, sc_ret, sg_vars, h_vars>>

\* One call of scatter_contour, with smooth given, in which the outline
\* call of line 104 raises: whatever matplotlib or scipy raised while the
\* SmoothContour was built (which inputs FITPACK refuses is not modelled).
\* smooth_contour has put the hold state back; nothing is the current image.
OutlineRaises ==
    /\ sc_pc = "called"
    /\ sc_args.smooth_given
    /\ \E H \in {ScaleCounts(Histogram2d(sc_args.x, sc_args.y,
                     sc_args.xedges, sc_args.yedges), sc_args.log_counts)},
          threshold \in {ScaleThreshold(sc_args.threshold,
                                        sc_args.log_counts)} :
        \E levels \in {ContourLevels(sc_args.levels, threshold, H)} :
          /\ Len(levels) > 0
          /\ sc_ret' = Unfinished(Drawn(levels, threshold, H))
    /\ sc_pc' = "raised_outline"
    /\ hold' = HoldAfterCall(hold, OutlineAx)
    /\ UNCHANGED <<sc_args, sg_vars, gca, current_image, h_pc, h_call,
                   washold, entry_hold, raised>>

\* One call of scatter_contour in which the contours call of lines 107-110
\* raises, after the outline was drawn: matplotlib refuses the levels; or,
\* with smooth given, the SmoothContour cannot be built, or pyp.sci refuses
\* it because ax is not the current axes.  With smooth given the outline
\* of smooth_contour is the current image by then.
ContoursRaise ==
    /\ sc_pc = "called"
    /\ \E H \in {ScaleCounts(Histogram2d(sc_args.x, sc_args.y,
                     sc_args.xedges, sc_args.yedges), sc_args.log_counts)},
          threshold \in {ScaleThreshold(sc_args.threshold,
                                        sc_args.log_counts)} :
        \E levels \in {ContourLevels(sc_args.levels, threshold, H)} :
          /\ Len(levels) > 0
          /\ \/ LevelsRefused(levels, sc_args.filled_contour)
             \/ LevelsNotIncreasing(levels)
             \/ sc_args.smooth_given
          /\ sc_ret' = Unfinished(Drawn(levels, threshold, H))
    /\ sc_pc' = "raised_contours"
    /\ hold' = IF sc_args.smooth_given
               THEN HoldAfterCall(HoldAfterCall(hold, OutlineAx), ScatterAx)
               ELSE hold
    /\ current_image' =
           IF sc_args.smooth_given THEN ContourFn(TRUE, FALSE)
           ELSE current_image
    /\ UNCHANGED <<sc_args, sg_vars, gca, h_pc, h_call, washold, entry_hold,
                   raised>>

\* the states of the operations a specification does not run
ScIdle == sc_pc = "idle" /\ sc_args = <<>> /\ sc_ret = <<>>
SgIdle == sg_pc = "idle" /\ sg_self = <<>> /\ sg_args = <<>> /\ sg_ret = <<>>
HIdle ==
    /\ h_pc = "unused" /\ hold = <<>> /\ gca = 0 /\ current_image = "none"
    /\ h_call = <<>> /\ washold = FALSE /\ entry_hold = <<>>
    /\ raised = FALSE

\* The bin edges of both axes, histogram2d_args = dict(bins=[edges, edges]):
\* the integers 0..MaxCoord, so MaxCoord bins of width 1 (the contour
\* functions refuse a grid of less than 2 by 2).
BinEdges == [i \in 1..(MaxCoord + 1) |-> i - 1]

\* x lies in 0..MaxCoord+1, whose last value is outside the histogram range
\* and whose last but one is on its upper edge; y lies in 0..MaxCoord.
XCoords == 0..(MaxCoord + 1)
YCoords == 0..MaxCoord

PointLE(p, q) == p[1] < q[1] \/ (p[1] = q[1] /\ p[2] <= q[2])

\* The point arrays of the calls: 1..MaxPoints points, given in
\* lexicographic order (the function handles each point on its own and
\* keeps the order of the arrays).
RECURSIVE SortedArrays(_)
SortedArrays(n) ==
    IF n = 0 THEN {<<>>}
    ELSE {Append(p, q) : <<p, q>> \in
             {pq \in SortedArrays(n - 1) \X (XCoords \X YCoords) :
                 n = 1 \/ PointLE(pq[1][n - 1], pq[2])}}

PointArrays == UNION {SortedArrays(n) : n \in 1..MaxPoints}

\* a call of scatter_contour on the points p
ScatterCall(p, levels, threshold, log_counts, filled_contour, smooth, ax) ==
    [x |-> [n \in 1..Len(p) |-> p[n][1]],
     y |-> [n \in 1..Len(p) |-> p[n][2]],
     xedges |-> BinEdges, yedges |-> BinEdges,
     levels |-> levels, threshold |-> threshold, log_counts |-> log_counts,
     filled_contour |-> filled_contour, smooth_given |-> smooth,
     ax |-> ax]

\* pyplot as it starts: the first axes current, every axes holding
DefaultPyplot ==
    /\ InitPyplot
    /\ gca = 1
    /\ hold = [a \in Axes |-> TRUE]

\* The calls of SpecScatter: any points and threshold; the levels are the
\* array [threshold, threshold + 1], which every matplotlib accepts whatever
\* the counts are, so each of these calls returns.  No smooth, no ax given.
InitScatter ==
    /\ sc_pc = "called"
    /\ \E p \in PointArrays, t \in 1..MaxThreshold, lg \in BOOLEAN :
          sc_args = ScatterCall(p, [isInt |-> FALSE, n |-> 0,
                                    arr |-> <<t, t + 1>>], t, lg, TRUE, FALSE,
                                   0)
    /\ sc_ret = <<>>
    /\ SgIdle /\ DefaultPyplot

NextScatter == ScatterContour

SpecScatter == InitScatter /\ [][NextScatter]_vars

\* the levels arguments of SpecLevels: an integer, or an array of values
LevelsArgs ==
    {[isInt |-> TRUE, n |-> n, arr |-> <<>>] : n \in 1..MaxLevels}
    \cup {[isInt |-> FALSE, n |-> 0, arr |-> a] :
            a \in SeqsOf(0..MaxLevelVal, 1, MaxLevelsLen)}

\* the points of a call are on the diagonal
OnDiagonal(p) == \A n \in 1..Len(p) : p[n][1] = p[n][2]

\* the calls of SpecLevels: any levels, the points on the diagonal, smooth
\* given or not, ax not given (0) or any of the axes
InitLevels ==
    /\ sc_pc = "called"
    /\ \E p \in PointArrays, lv \in LevelsArgs, t \in 1..MaxThreshold,
          lg \in BOOLEAN, fc \in BOOLEAN, sm \in BOOLEAN,
          ax \in {0} \cup Axes :
          /\ OnDiagonal(p)
          /\ sc_args = ScatterCall(p, lv, t, lg, fc, sm, ax)
    /\ sc_ret = <<>>
    /\ SgIdle /\ DefaultPyplot

NextLevels ==
    \/ ScatterContour
    \/ LinspaceRaises
    \/ ArgminRaises
    \/ OutlineRaises
    \/ ContoursRaise

SpecLevels == InitLevels /\ [][NextLevels]_vars

-----------------------------------------------------------------------------
(* Properties of scatter_contour                                           *)

\* the bin counts of the call as numpy.histogram2d returns them
RawH == Histogram2d(sc_args.x, sc_args.y, sc_args.xedges, sc_args.yedges)

\* the count of the bin point n is counted in; -1 for a point not counted
CountAt(H, n) ==
    LET i == NumpyBin(sc_args.x[n], sc_args.xedges)
        j == NumpyBin(sc_args.y[n], sc_args.yedges)
    IN IF i = 0 \/ j = 0 THEN -1 ELSE H[i][j]

\* the points counted in a bin whose count c has 0 < c < threshold
SparsePoints ==
    UNION {{n \in 1..Len(sc_args.x) :
               CountAt(H, n) > 0 /\ CountAt(H, n) < sc_args.threshold} :
           H \in {RawH}}

\* the points counted in a bin whose count is at least threshold
DensePoints ==
    UNION {{n \in 1..Len(sc_args.x) : CountAt(H, n) >= sc_args.threshold} :
           H \in {RawH}}

\* C1: every point that histogram2d counts in a bin with 0 < H < threshold
\* is a scatter candidate, wherever it lies in its bin, the upper edge of
\* the histogram range included.
C1_SparsePointsSelected ==
    sc_pc = "returned" =>
        \A n \in SparsePoints : sc_ret.points_outside[n]

\* C2: the plotted points are points of bins with 0 < H < threshold; no
\* point of a bin with H >= threshold is plotted, whether or not the outline
\* has a segment.
C2_PlottedAreSparse ==
    sc_pc = "returned" =>
        \A sparse \in {SparsePoints}, dense \in {DensePoints} :
            \A k \in 1..Len(sc_ret.Xplot) :
                /\ \E n \in sparse :
                      sc_ret.Xplot[k] = <<sc_args.x[n], sc_args.y[n]>>
                /\ \A n \in dense :
                      sc_ret.Xplot[k] # <<sc_args.x[n], sc_args.y[n]>>

\* a call with points of a dense bin and of a sparse one, an outline with a
\* segment, and a point plotted
C2_Witness ==
    /\ sc_pc = "returned"
    /\ sc_ret.has_segs
    /\ DensePoints # {}
    /\ Len(sc_ret.Xplot) >= 1

\* the outline call of line 104 was made, so the levels were computed
OutlineCalled == sc_pc \in {"returned", "raised_contours", "raised_outline"}

\* C3: an array levels, of any length, is passed to the contour call as it
\* is; only an integer is a number of levels.  So a call with an array
\* does not fail in np.linspace or np.argmin, and the levels of its contour
\* calls are the values of the array.
C3_ArrayLevelsPassed ==
    (sc_pc # "called" /\ ~sc_args.levels.isInt) =>
        /\ OutlineCalled
        /\ Len(sc_ret.drawn.levels) = Len(sc_args.levels.arr)
        /\ \A i \in 1..Len(sc_ret.drawn.levels) :
              RatEq(sc_ret.drawn.levels[i], Rat(sc_args.levels.arr[i]))

\* C4: an integer levels n >= 1 gives n levels from threshold to the
\* greatest bin count, the least of which, the level of the outline, is
\* threshold.
C4_LevelsBeginAtThreshold ==
    (OutlineCalled /\ sc_args.levels.isInt /\ sc_args.levels.n >= 1) =>
        \A d \in {sc_ret.drawn} :
            /\ Len(d.levels) = sc_args.levels.n
            /\ RatEq(d.levels[1], d.threshold)
            /\ sc_args.levels.n >= 2 => RatEq(d.levels[Len(d.levels)], d.hmax)
            /\ RatEq(d.levels[d.i_min], d.threshold)
            /\ RatEq(d.outline_levels[1], d.threshold)

-----------------------------------------------------------------------------
(* SmoothContour._smooth_segs                                              *)
(*                                                                         *)
(* An array of points is a record [src, rows, fit].  An array of data has  *)
(* src "data" and its points <<x, y>> as rows.  The coordinates of a       *)
(* spline are not modelled: an array that splev computed has src "splev",  *)
(* the parameter values it was evaluated at as rows (so one row for each   *)
(* point), and the arguments of the fit as fit; the mean of two such       *)
(* arrays has src "mean".                                                  *)

NoFit == [data |-> <<>>, s |-> 0, k |-> 0, per |-> 0]

DataArray(points) == [src |-> "data", rows |-> points, fit |-> NoFit]

\* SmoothContour.__init__: the attributes _smooth_segs reads
NewSmoothContour(smooth, k, int_number) ==
    [smooth |-> smooth, k |-> k, int_number |-> int_number,
     kinds_fill |-> [i \in 1..int_number |-> IF i = 1 THEN 1 ELSE 2],
     unew |-> Linspace(Rat(0), Rat(1), int_number)]

\* unique_vec(A): the points of A at the last index of each distinct point,
\* in order, with A[0] put first when index 0 is not among them (per = 1).
\* (Python 2, which the module is written for: ud.values() is a list.)
UniqueVec(A) ==
    LET last == {i \in 1..Len(A) : \A j \in (i + 1)..Len(A) : A[j] # A[i]}
    IN IF 1 \in last
       THEN [useg |-> Take(A, last), per |-> 0]
       ELSE [useg |-> <<A[1]>> \o Take(A, last), per |-> 1]

\* a segment of exactly k points taken as long enough too
LongEnoughOrEqual(useg, k) == Len(useg) >= k

\* if len(useg)>self.k: #check if long enough to smooth
LongEnough(useg, k) == Len(useg) > k

\* seg=np.vstack(splev(self.unew,tck)).T after tck,u=splprep(useg.T,...):
\* one point for each value of unew
Splev(unew, useg, s, k, per) ==
    [src |-> "splev", rows |-> unew,
     fit |-> [data |-> useg, s |-> s, k |-> k, per |-> per]]

\* np.dstack([seg,seg2]).mean(axis=2): the mean, point by point, of the
\* curve and of the curve fitted to the points in reverse order
MeanOfBoth(seg) == [seg EXCEPT !.src = "mean"]

\* the seg and kind that _smooth_segs(seg, kind, avg) returns
SmoothSegs(self, seg, kind, avg) ==
    LET u == UniqueVec(seg)
        fitted == Splev(self.unew, u.useg, self.smooth, self.k, u.per)
    IN IF LongEnough(u.useg, self.k)
       THEN [seg |-> IF self.smooth > 0 /\ avg THEN MeanOfBoth(fitted)
                     ELSE fitted,
             kind |-> IF kind.none THEN kind
                      ELSE [none |-> FALSE, codes |-> self.kinds_fill]]
       ELSE [seg |-> DataArray(seg), kind |-> kind]

\* a call of _smooth_segs that returns
SmoothSegsReturns ==
    /\ sg_pc = "called"
    /\ sg_ret' = SmoothSegs(sg_self, sg_args.seg, sg_args.kind, sg_args.avg)
    /\ sg_pc' = "returned"
    /\ UNCHANGED <<sg_self, sg_args, sc_vars, h_vars>>

\* a call of _smooth_segs in which splprep raises (FITPACK refuses some
\* inputs, which ones is not modelled): the error leaves _smooth_segs
SmoothSegsRaises ==
    /\ sg_pc = "called"
    /\ LongEnough(UniqueVec(sg_args.seg).useg, sg_self.k)
    /\ sg_pc' = "raised"
    /\ UNCHANGED <<sg_self, sg_args, sg_ret, sc_vars, h_vars>>

SegPoints == {<<c, MaxSegCoord - c>> : c \in 0..MaxSegCoord}

\* the path codes of a segment of n points: a MOVETO, then LINETOs
PathCodes(n) == [i \in 1..n |-> IF i = 1 THEN 1 ELSE 2]

InitSegs ==
    /\ sg_pc = "called"
    /\ \E smooth \in {0, 1}, k \in 1..MaxK, int_number \in 1..MaxIntNumber :
          sg_self = NewSmoothContour(smooth, k, int_number)
    /\ \E seg \in SeqsOf(SegPoints, 1, MaxSegLen), none \in BOOLEAN,
          avg \in BOOLEAN :
          sg_args = [seg |-> seg, avg |-> avg,
                     kind |-> [none |-> none,
                               codes |-> IF none THEN <<>>
                                         ELSE PathCodes(Len(seg))]]
    /\ sg_ret = <<>>
    /\ ScIdle /\ HIdle

NextSegs == SmoothSegsReturns \/ SmoothSegsRaises

SpecSegs == InitSegs /\ [][NextSegs]_vars

\* C5: _smooth_segs returns a segment of exactly int_number points whenever
\* unique_vec returns more than k points of the segment, and the segment
\* and its kind codes as they were given whenever it returns k or fewer.
C5_SmoothSegsLength ==
    sg_pc = "returned" =>
        IF Len(UniqueVec(sg_args.seg).useg) > sg_self.k
        THEN Len(sg_ret.seg.rows) = sg_self.int_number
        ELSE /\ sg_ret.seg.src = "data"
             /\ sg_ret.seg.rows = sg_args.seg
             /\ sg_ret.kind = sg_args.kind

\* a closed segment (its first point comes again) of one point more than k,
\* smoothed to int_number points, which is not the number it had
C5_Witness ==
    /\ sg_pc = "returned"
    /\ UniqueVec(sg_args.seg).per = 1
    /\ Len(UniqueVec(sg_args.seg).useg) = sg_self.k + 1
    /\ sg_ret.seg.src = "mean"
    /\ Len(sg_ret.seg.rows) = sg_self.int_number
    /\ Len(sg_ret.seg.rows) # Len(sg_args.seg)

-----------------------------------------------------------------------------
(* smooth_contour and smooth_contourf                                      *)

\* Lines 111-116 and 126-131: a call of fn with the keyword ax (0: not
\* given, the current axes are used) and the keyword hold ("None": not
\* given).  It takes washold from the axes and sets the hold given.
CallSmoothContour(fn, ax_kw, hold_kw) ==
    /\ h_pc \in {"idle", "returned", "propagated", "raised_sci"}
    /\ LET ax == IF ax_kw = 0 THEN gca ELSE ax_kw
       IN /\ h_call' = [fn |-> fn, filled |-> (fn = "smooth_contourf"),
                        ax |-> ax, hold |-> hold_kw]
          /\ washold' = hold[ax]
          /\ hold' = IF hold_kw = "None" THEN hold
                     ELSE AxHold(hold, ax, hold_kw = "True")
    /\ entry_hold' = hold
    /\ raised' = FALSE
    /\ h_pc' = "try"
    /\ UNCHANGED <<gca, current_image, sc_vars, sg_vars>>

\* the try block runs to its end: ret = SmoothContour(ax,*args,**kwargs)
\* and pyp.draw_if_interactive()
TryCompletes ==
    /\ h_pc = "try"
    /\ h_pc' = "finally"
    /\ UNCHANGED <<hold, gca, current_image, h_call, washold, entry_hold,
                   raised, sc_vars, sg_vars>>

\* the try block raises: whatever matplotlib or scipy raised while the
\* SmoothContour was built
TryRaises ==
    /\ h_pc = "try"
    /\ raised' = TRUE
    /\ h_pc' = "finally"
    /\ UNCHANGED <<hold, gca, current_image, h_call, washold, entry_hold,
                   sc_vars, sg_vars>>

\* the hold state put back only after a try block that did not raise
RestoreUnlessRaised ==
    /\ h_pc = "finally"
    /\ hold' = IF raised THEN hold ELSE AxHold(hold, h_call.ax, washold)
    /\ h_pc' = IF raised THEN "propagated" ELSE "after"
    /\ UNCHANGED <<gca, current_image, h_call, washold, entry_hold, raised,
                   sc_vars, sg_vars>>

\* finally: ax.hold(washold); then the exception, if any, goes on to the
\* caller
Finally ==
    /\ h_pc = "finally"
    /\ hold' = AxHold(hold, h_call.ax, washold)
    /\ h_pc' = IF raised THEN "propagated" ELSE "after"
    /\ UNCHANGED <<gca, current_image, h_call, washold, entry_hold, raised,
                   sc_vars, sg_vars>>

\* if ret._A is not None: pyp.sci(ret); return ret.  ContourSet.__init__
\* sets the array of the set, so ret._A is not None and pyp.sci is called:
\* the set drawn on the current axes becomes the current image.
Return ==
    /\ h_pc = "after"
    /\ ~SciRaises(h_call.ax)
    /\ current_image' = h_call.fn
    /\ h_pc' = "returned"
    /\ UNCHANGED <<hold, gca, h_call, washold, entry_hold, raised,
                   sc_vars, sg_vars>>

\* pyp.sci(ret) raises: the call was given other axes than the current
\* ones.  The call ends with the ValueError, after the finally clause; no
\* current image is set.
SciRaise ==
    /\ h_pc = "after"
    /\ SciRaises(h_call.ax)
    /\ h_pc' = "raised_sci"
    /\ UNCHANGED <<hold, gca, current_image, h_call, washold, entry_hold,
                   raised, sc_vars, sg_vars>>

InitHold == InitPyplot /\ ScIdle /\ SgIdle

NextHold ==
    \/ \E fn \in {"smooth_contour", "smooth_contourf"}, ax_kw \in {0} \cup Axes,
          hold_kw \in {"None", "True", "False"} :
          CallSmoothContour(fn, ax_kw, hold_kw)
    \/ TryCompletes
    \/ TryRaises
    \/ Finally
    \/ Return
    \/ SciRaise

SpecHold == InitHold /\ [][NextHold]_vars

\* C6: when smooth_contour or smooth_contourf has finished, by returning or
\* by letting an exception through (of the try block, or of pyp.sci after
\* it), every axes has the hold state it had when the call began; and a
\* call whose try block raised ends with that exception, not with a return.
C6_HoldRestored ==
    h_pc \in {"returned", "propagated", "raised_sci"} =>
        /\ hold = entry_hold
        /\ (h_pc = "propagated") <=> raised

\* a call given a hold keyword that changed the hold state of its axes, and
\* that ended with an exception
C6_Witness ==
    /\ h_pc = "propagated"
    /\ h_call.hold # "None"
    /\ (h_call.hold = "True") # entry_hold[h_call.ax]

=============================================================================
